---- MODULE Spec2Model ----
(***************************************************************************)
(* PageRank (src/pagerank.py): transition_model, sample_pagerank and       *)
(* iterate_pagerank.                                                       *)
(*                                                                         *)
(* Pages are the integers 1..k; a corpus is a function from its pages to   *)
(* the set of pages each links to.  A dict iterates in insertion order,    *)
(* modelled as ascending page number: every labelled graph on 1..k is      *)
(* enumerated, so every iteration order relative to the link structure     *)
(* occurs.                                                                 *)
(*                                                                         *)
(* Real numbers are fixed point: the integer x stands for x / Scale.       *)
(* A damping factor is a number of twentieths (17 is 0.85). Scale is a     *)
(* multiple of DampDen * N * L for every page count N and outlink count L  *)
(* the model reaches, so transition_model's probabilities are exact; the   *)
(* divisions of iterate_pagerank round down, as a float division rounds.   *)
(* A value the code returns after a final division is kept as the exact    *)
(* fraction <<numerator, denominator>>.                                    *)
(***************************************************************************)
EXTENDS Integers, FiniteSets, Sequences, TLC

VARIABLES corpus, damping_factor, n,
          pc_t, page, probability_distribution,
          pc_s, sample, pr_dict, i, visited, ranks_s,
          pc_i, iterate_dict, count, ranks_i

vars == <<corpus, damping_factor, n,
          pc_t, page, probability_distribution,
          pc_s, sample, pr_dict, i, visited, ranks_s,
          pc_i, iterate_dict, count, ranks_i>>

inputs == <<corpus, damping_factor, n>>
vars_t == <<pc_t, page, probability_distribution>>
vars_s == <<pc_s, sample, pr_dict, i, visited, ranks_s>>
vars_i == <<pc_i, iterate_dict, count, ranks_i>>

(* ------------------------------ bounds -------------------------------- *)

MaxPages == 3

MaxSamples == 3

(* ----------------------------- numbers -------------------------------- *)

DampDen == 20

DAMPING == 17

Scale == DampDen * 60000

Tolerance == Scale \div 10000

Dampings == {0, 5, 10, DAMPING, DampDen}

SampleCounts == (0 - 2)..MaxSamples

Abs(x) == IF x < 0 THEN 0 - x ELSE x

RECURSIVE SumValues(_, _)
SumValues(f, S) ==
    IF S = {} THEN 0
    ELSE LET x == CHOOSE y \in S : TRUE
         IN  f[x] + SumValues(f, S \ {x})

(* ------------------------------ corpus -------------------------------- *)

\* crawl: links are to other pages of the corpus, never to the page itself.
Corpora ==
    UNION { { c \in [1..k -> SUBSET (1..k)] : \A p \in 1..k : p \notin c[p] }
            : k \in 0..MaxPages }

NumPages(c) == Cardinality(DOMAIN c)

NumLinks(c, p) == Cardinality(c[p])

(* -------------------------- transition_model -------------------------- *)

\* Mutant: a link target gets the link-following share alone.
transition_model_no_teleport(c, p, d) ==
    IF NumLinks(c, p) = 0
    THEN LET prob == Scale \div NumPages(c)
         IN  [key \in DOMAIN c |-> prob]
    ELSE LET prob1 == (d * Scale) \div (DampDen * NumLinks(c, p))
             prob2 == ((DampDen - d) * Scale) \div (DampDen * NumPages(c))
         IN  [key \in DOMAIN c \cup c[p] |->
                 IF key \in c[p] THEN prob1 ELSE prob2]

transition_model(c, p, d) ==
    IF NumLinks(c, p) = 0
    THEN LET prob == Scale \div NumPages(c)
         IN  [key \in DOMAIN c |-> prob]
    ELSE LET prob1 == (d * Scale) \div (DampDen * NumLinks(c, p))
             prob2 == ((DampDen - d) * Scale) \div (DampDen * NumPages(c))
             prob  == prob1 + prob2
         IN  [key \in DOMAIN c \cup c[p] |->
                 IF key \in c[p] THEN prob ELSE prob2]

InitInputs ==
    /\ corpus \in Corpora
    /\ damping_factor \in Dampings

IdleT ==
    /\ pc_t = "idle"
    /\ page = 0
    /\ probability_distribution = << >>

IdleS ==
    /\ pc_s = "idle"
    /\ sample = 0
    /\ pr_dict = << >>
    /\ i = 0
    /\ visited = {}
    /\ ranks_s = << >>

IdleI ==
    /\ pc_i = "idle"
    /\ iterate_dict = << >>
    /\ count = 0
    /\ ranks_i = << >>

InitTransition ==
    /\ InitInputs
    /\ n = 1
    /\ pc_t = "call"
    /\ page = 0
    /\ probability_distribution = << >>
    /\ IdleS
    /\ IdleI

CallTransition ==
    /\ pc_t = "call"
    /\ \E p \in DOMAIN corpus :
          /\ page' = p
          /\ probability_distribution' = transition_model(corpus, p, damping_factor)
    /\ pc_t' = "done"
    /\ UNCHANGED <<inputs, vars_s, vars_i>>

NextTransition == CallTransition

SpecTransition == InitTransition /\ [][NextTransition]_vars

\* C1: transition_model returns a mapping over exactly the corpus pages;
\* every value is 1/|pages| when the source page has no outlinks, otherwise
\* (1-damping)/|pages| + damping/|outlinks| for a link target and
\* (1-damping)/|pages| for any other page; the values sum to 1.
C1_TransitionDistribution ==
    pc_t = "done" =>
        LET pd == probability_distribution
            N  == NumPages(corpus)
            L  == NumLinks(corpus, page)
            d  == damping_factor
        IN  /\ DOMAIN pd = DOMAIN corpus
            /\ IF corpus[page] = {}
               THEN \A key \in DOMAIN pd : pd[key] * N = Scale
               ELSE \A key \in DOMAIN pd :
                        pd[key] * (DampDen * N * L) =
                            Scale * ((DampDen - d) * L
                                     + (IF key \in corpus[page] THEN d * N ELSE 0))
            /\ SumValues(pd, DOMAIN pd) = Scale

C1_Witness ==
    /\ pc_t = "done"
    /\ damping_factor = DAMPING
    /\ NumPages(corpus) = 3
    /\ NumLinks(corpus, page) = 1
    /\ \E q \in DOMAIN corpus : NumLinks(corpus, q) = 0

(* --------------------------- sample_pagerank -------------------------- *)

\* Mutant: a page seen before has its count set back to 1.
RecordVisitNoIncrement(pr, p) ==
    [q \in DOMAIN pr \cup {p} |-> IF q = p THEN 1 ELSE pr[q]]

\* Mutant: a page seen for the first time is entered with count 0.
RecordVisitFromZero(pr, p) ==
    IF p \in DOMAIN pr
    THEN [pr EXCEPT ![p] = pr[p] + 1]
    ELSE [q \in DOMAIN pr \cup {p} |-> IF q = p THEN 0 ELSE pr[q]]

RecordVisit(pr, p) ==
    IF p \in DOMAIN pr
    THEN [pr EXCEPT ![p] = pr[p] + 1]
    ELSE [q \in DOMAIN pr \cup {p} |-> IF q = p THEN 1 ELSE pr[q]]

\* random.choices draws a page with probability proportional to its weight:
\* any page of positive weight can be drawn, a page of weight 0 never.
WeightedChoices(new_sample) ==
    { p \in DOMAIN new_sample : new_sample[p] > 0 }

InitSample ==
    /\ InitInputs
    /\ n \in SampleCounts
    /\ IdleT
    /\ pc_s = "start"
    /\ sample = 0
    /\ pr_dict = << >>
    /\ i = 0
    /\ visited = {}
    /\ ranks_s = << >>
    /\ IdleI

\* random.choice of an empty list raises IndexError.
SampleStartEmpty ==
    /\ pc_s = "start"
    /\ DOMAIN corpus = {}
    /\ pc_s' = "error"
    /\ UNCHANGED <<inputs, vars_t, sample, pr_dict, i, visited, ranks_s, vars_i>>

SampleStart ==
    /\ pc_s = "start"
    /\ \E p \in DOMAIN corpus :
          /\ sample' = p
          /\ pr_dict' = [q \in {p} |-> 1]
          /\ visited' = {p}
    /\ i' = 1
    /\ pc_s' = "loop"
    /\ UNCHANGED <<inputs, vars_t, ranks_s, vars_i>>

SampleStep ==
    /\ pc_s = "loop"
    /\ i < n
    /\ LET new_sample == transition_model(corpus, sample, damping_factor)
       IN  \E page_next \in WeightedChoices(new_sample) :
              /\ pr_dict' = RecordVisit(pr_dict, page_next)
              /\ sample' = page_next
              /\ visited' = visited \cup {page_next}
    /\ i' = i + 1
    /\ UNCHANGED <<inputs, vars_t, pc_s, ranks_s, vars_i>>

\* pr_dict[key] / n with n = 0 raises ZeroDivisionError.
SampleFinishZero ==
    /\ pc_s = "loop"
    /\ ~(i < n)
    /\ n = 0
    /\ pc_s' = "error"
    /\ UNCHANGED <<inputs, vars_t, sample, pr_dict, i, visited, ranks_s, vars_i>>

SampleFinish ==
    /\ pc_s = "loop"
    /\ ~(i < n)
    /\ n # 0
    /\ ranks_s' = [key \in DOMAIN pr_dict |-> <<pr_dict[key], n>>]
    /\ pc_s' = "done"
    /\ UNCHANGED <<inputs, vars_t, sample, pr_dict, i, visited, vars_i>>

NextSample ==
    \/ SampleStartEmpty
    \/ SampleStart
    \/ SampleStep
    \/ SampleFinishZero
    \/ SampleFinish

SpecSample == InitSample /\ [][NextSample]_vars

RECURSIVE SumNumerators(_, _)
SumNumerators(f, S) ==
    IF S = {} THEN 0
    ELSE LET x == CHOOSE y \in S : TRUE
         IN  f[x][1] + SumNumerators(f, S \ {x})

\* C4: for n >= 1, at every point of the walk the visit counts sum to the
\* number of draws made so far and the current page is a page of the corpus;
\* the returned values count/n sum to 1, and for n = 1 the result is the
\* start page alone with probability 1.
C4_WalkCounts ==
    n >= 1 =>
        /\ pc_s = "loop" =>
              /\ SumValues(pr_dict, DOMAIN pr_dict) = i
              /\ i <= n
              /\ sample \in DOMAIN corpus
        /\ pc_s = "done" =>
              /\ SumValues(pr_dict, DOMAIN pr_dict) = n
              /\ \A key \in DOMAIN ranks_s : ranks_s[key][2] = n
              /\ SumNumerators(ranks_s, DOMAIN ranks_s) = n
              /\ n = 1 => /\ DOMAIN ranks_s = {sample}
                          /\ ranks_s[sample] = <<1, 1>>

C4_Witness ==
    /\ pc_s = "done"
    /\ n = 3
    /\ \E key \in DOMAIN ranks_s : ranks_s[key] = <<2, 3>>
    /\ Cardinality(DOMAIN ranks_s) = 2

C7_NonPositiveCountFails ==
    (n < 1 /\ DOMAIN corpus # {}) => pc_s # "done"

(* -------------------------- iterate_pagerank -------------------------- *)

\* sum of iterate_dict[page] / len(corpus[page]) over the pages linking to key
RECURSIVE InboundSum(_, _, _, _)
InboundSum(dict, key, c, pg) ==
    IF pg > NumPages(c) THEN 0
    ELSE (IF key \in c[pg] THEN dict[pg] \div NumLinks(c, pg) ELSE 0)
         + InboundSum(dict, key, c, pg + 1)

NewRank(dict, key, c, d) ==
    ((DampDen - d) * Scale) \div (DampDen * NumPages(c))
        + (d * InboundSum(dict, key, c, 1)) \div DampDen

WithinTolerance(old, new) == Abs(old - new) < Tolerance

\* The body of the while loop from page `key` on: every page's new rank is
\* computed from the dict as it then stands and stored in it at once.
RECURSIVE SweepFrom(_, _, _, _, _)
SweepFrom(dict, cnt, key, c, d) ==
    IF key > NumPages(c) THEN [dict |-> dict, count |-> cnt]
    ELSE LET new == NewRank(dict, key, c, d)
         IN  SweepFrom([dict EXCEPT ![key] = new],
                       IF WithinTolerance(dict[key], new) THEN cnt + 1 ELSE cnt,
                       key + 1, c, d)

\* Mutant: the count of pages within tolerance is not reset between sweeps.
SweepCountCarried(dict, cnt, c, d) == SweepFrom(dict, cnt, 1, c, d)

\* One pass of the while loop: count = 0 whatever the last pass left in it
\* (cnt), then the for loop over every page.
Sweep(dict, cnt, c, d) == SweepFrom(dict, 0, 1, c, d)

\* Mutant: the count is compared with one more than the number of pages.
LoopExitOffByOne(cnt, c) == cnt = NumPages(c) + 1

LoopExit(cnt, c) == cnt = NumPages(c)

\* Mutant: the last page is left out of the total.
TotalSkipLast(dict) == SumValues(dict, DOMAIN dict \ {Cardinality(DOMAIN dict)})

Total(dict) == SumValues(dict, DOMAIN dict)

InitIterate ==
    /\ InitInputs
    /\ n = 1
    /\ IdleT
    /\ IdleS
    /\ pc_i = "start"
    /\ iterate_dict = << >>
    /\ count = 0
    /\ ranks_i = << >>

IterateStart ==
    /\ pc_i = "start"
    /\ iterate_dict' = [key \in DOMAIN corpus |-> Scale \div NumPages(corpus)]
    /\ pc_i' = "loop"
    /\ UNCHANGED <<inputs, vars_t, vars_s, count, ranks_i>>

IterateSweep ==
    /\ pc_i = "loop"
    /\ LET r == Sweep(iterate_dict, count, corpus, damping_factor)
       IN  /\ iterate_dict' = r.dict
           /\ count' = r.count
           /\ pc_i' = IF LoopExit(r.count, corpus) THEN "normalize" ELSE "loop"
    /\ UNCHANGED <<inputs, vars_t, vars_s, ranks_i>>

\* iterate_dict[key] / total with total = 0 raises ZeroDivisionError.
IterateNormalizeZero ==
    /\ pc_i = "normalize"
    /\ DOMAIN iterate_dict # {}
    /\ Total(iterate_dict) = 0
    /\ pc_i' = "error"
    /\ UNCHANGED <<inputs, vars_t, vars_s, iterate_dict, count, ranks_i>>

IterateNormalize ==
    /\ pc_i = "normalize"
    /\ DOMAIN iterate_dict = {} \/ Total(iterate_dict) # 0
    /\ ranks_i' = [key \in DOMAIN iterate_dict |->
                      <<iterate_dict[key], Total(iterate_dict)>>]
    /\ pc_i' = "done"
    /\ UNCHANGED <<inputs, vars_t, vars_s, iterate_dict, count>>

NextIterate ==
    \/ IterateStart
    \/ IterateSweep
    \/ IterateNormalizeZero
    \/ IterateNormalize

SpecIterate == InitIterate /\ [][NextIterate]_vars

\* The loop is sequential code: a step that can be taken is taken.
FairSpecIterate == SpecIterate /\ WF_vars(NextIterate)

\* A returned fraction <<a, b>> as a fixed-point number, rounded down
\* (a * Scale \div b, in two steps that stay within 32 bits).
FixedOf(f) ==
    LET hi == (f[1] * (DampDen * 60)) \div f[2]
        r  == (f[1] * (DampDen * 60)) % f[2]
    IN  hi * 1000 + (r * 1000) \div f[2]

\* One sweep of the same formula by a read buffer and a write buffer.
TwoBufferSweep(dict, c, d) ==
    [key \in DOMAIN dict |-> NewRank(dict, key, c, d)]

\* C2: every sweep is a simultaneous update: the rank vector after a sweep
\* is the one a two-buffer implementation of the formula produces from the
\* ranks before the sweep.
C2_SimultaneousUpdate ==
    [][pc_i = "loop" =>
          iterate_dict' = TwoBufferSweep(iterate_dict, corpus, damping_factor)]_vars

\* C3: for a non-empty corpus and damping in (0,1), iterate_pagerank returns
\* a mapping over exactly the corpus pages, every value non-negative, each
\* the converged rank divided by the sum of the converged ranks, so that the
\* values sum to 1.
C3_IterateDistribution ==
    (DOMAIN corpus # {} /\ damping_factor > 0 /\ damping_factor < DampDen) =>
        /\ pc_i # "error"
        /\ pc_i = "done" =>
              /\ DOMAIN ranks_i = DOMAIN corpus
              /\ \A key \in DOMAIN ranks_i :
                    /\ ranks_i[key][1] = iterate_dict[key]
                    /\ ranks_i[key][1] >= 0
                    /\ ranks_i[key][2] > 0
                    /\ ranks_i[key][2] = SumNumerators(ranks_i, DOMAIN ranks_i)

C3_Witness ==
    /\ pc_i = "done"
    /\ damping_factor = DAMPING
    /\ NumPages(corpus) = 3
    /\ \E key \in DOMAIN corpus : corpus[key] = {}
    /\ \E key \in DOMAIN ranks_i : ranks_i[key][2] < Scale

\* C5: for damping in [0,1) the convergence loop is left after finitely many
\* sweeps: the normalization step is reached.
C5_LoopExits ==
    (pc_i = "loop" /\ damping_factor < DampDen) ~> (pc_i = "normalize")

C5_Witness ==
    /\ pc_i = "normalize"
    /\ damping_factor = DAMPING
    /\ NumPages(corpus) = 3
    /\ \E key \in DOMAIN corpus : iterate_dict[key] # Scale \div NumPages(corpus)

\* C6: for a corpus of zero pages iterate_pagerank ends in an error and
\* returns no mapping.
C6_EmptyCorpusFails ==
    DOMAIN corpus = {} => pc_i # "done"

\* C8: for a non-empty corpus and damping in [0,1), one more sweep from the
\* mapping iterate_pagerank returned changes no page's rank by more than the
\* tolerance.
C8_IdempotentOnOutput ==
    (pc_i = "done" /\ DOMAIN corpus # {} /\ damping_factor < DampDen) =>
        LET out   == [key \in DOMAIN ranks_i |-> FixedOf(ranks_i[key])]
            again == Sweep(out, 0, corpus, damping_factor).dict
        IN  \A key \in DOMAIN out : Abs(again[key] - out[key]) <= Tolerance

\* C10: the loop stops after a sweep exactly when, in that sweep, every
\* page's new rank is within the tolerance of its rank before the sweep.
C10_StopsIffAllWithinTolerance ==
    [][pc_i = "loop" =>
          ((pc_i' = "normalize") <=>
              \A key \in DOMAIN corpus :
                  Abs(iterate_dict'[key] - iterate_dict[key]) < Tolerance)]_vars

C10_Witness ==
    /\ pc_i = "loop"
    /\ NumPages(corpus) = 3
    /\ count \in 1..2

====
